---------------------------- MODULE Spec2Model ----------------------------
(***************************************************************************)
(* A model of dashboard.py, the Streamlit dashboard "Lebanon Trade 2023".  *)
(*                                                                         *)
(* Streamlit runs the whole script once when the page opens and once more  *)
(* after every change of a widget.  The state is the cached base table,    *)
(* the widget values, and the structures the last run of the script built. *)
(* Every action is one change of a widget followed by the full run of the  *)
(* script that the change triggers.                                        *)
(*                                                                         *)
(* Abstractions.  A governorate name is a number: governorates are         *)
(* numbered in the alphabetical order of their cleaned names, so sorting   *)
(* names is sorting numbers.  A town name is a string of the list Towns,   *)
(* which is written in alphabetical order.  A raw CSV cell is a string.    *)
(* A parsed cell is a record [isna, v], isna standing for pandas' NaN.     *)
(* A displayed value is a fraction [num, den], so that the division of     *)
(* the percentage mode is exact (the code's floats carry a rounding error  *)
(* that the model leaves out).                                             *)
(***************************************************************************)
EXTENDS Integers, Sequences, FiniteSets, TLC

\* ------------------------------------------------------------- bounds
\* Number of governorates of the data file.
NumGovs == 6
\* Rows of the data file beyond the first row of each governorate.
ExtraRows == 2
\* Number of data files a session of Spec starts from.
NumTables == 2
\* Number of data files a session of SpecData starts from.
NumDataTables == 24
\* The slider's values, and its default, are cut to SliderMin .. MaxTopN.
MaxTopN == 7
\* Number of runs of the script in one session of Spec (the first included).
MaxRuns == 3
\* Number of runs of the script in one session of SpecData.
MaxDataRuns == 2

\* ------------------------------------------------- program constants
SliderMin == 5
SliderMax == 25
SliderDefault == 10

COMMERCIAL_SIZE_COLS == <<"small", "medium", "large">>
OTHER_COLS == <<"service", "nonbanking">>
EXISTENCE_COLS ==
    <<"self_employment", "public_sector", "banking_institutions",
      "service_institutions", "commerce">>

EXISTENCE_LABELS ==
    [self_employment |-> "Self-employment",
     public_sector |-> "Public sector",
     banking_institutions |-> "Banking",
     service_institutions |-> "Service institutions",
     commerce |-> "Commerce"]

SIZE_MAP ==
    [small |-> "Commercial - Small",
     medium |-> "Commercial - Medium",
     large |-> "Commercial - Large"]

OTHER_MAP ==
    [service |-> "Service institutions",
     nonbanking |-> "Non-banking financial institutions"]

\* The options of the drill-down's activity selectbox.
act_options ==
    <<"Commerce", "Service institutions", "Self-employment", "Public sector", "Banking">>

\* The value a selectbox returns when it has no option.
None == 0

\* --------------------------------------------------- sequence helpers
Range(s) == {s[i] : i \in DOMAIN s}

\* The sequence f with its entries computed.
List(f) == <<>> \o f

RECURSIVE SumSeq(_)
SumSeq(s) == IF s = <<>> THEN 0 ELSE Head(s) + SumSeq(Tail(s))

RECURSIVE Flatten(_)
Flatten(ss) == IF ss = <<>> THEN <<>> ELSE Head(ss) \o Flatten(Tail(ss))

RECURSIVE SetToSortedSeq(_)
\* A set of integers as the ascending sequence (Python's sorted).
SetToSortedSeq(S) ==
    IF S = {} THEN <<>>
    ELSE LET m == CHOOSE x \in S : \A y \in S : x <= y
         IN <<m>> \o SetToSortedSeq(S \ {m})

Min(a, b) == IF a <= b THEN a ELSE b
Max(a, b) == IF a >= b THEN a ELSE b

\* ------------------------------------------------------ the data file
Govs == 1..NumGovs
NumRows == NumGovs + ExtraRows

\* Town names, in alphabetical order.
Towns == <<"Aley", "Batroun", "Chouf", "Douma">>
TownRank(t) == CHOOSE i \in DOMAIN Towns : Towns[i] = t

\* What a cell of the file can hold: nothing, text that is no number, a number.
RawCells == <<"", "n/a", "0", "1", "2">>

\* The cells of row r of data file s.  The files differ in their cells;
\* among them are rows without any institution, rows without any recorded
\* indicator, rows without a town name, several rows of one governorate
\* (with the same town name or not), and areas written as a URI or plainly.
CountCell(s, r, col) ==
    IF (r + s) % 4 = 0 THEN RawCells[(col % 3) + 1]
    ELSE RawCells[(((s * col * col + r * r + col * r + s) % 7) % 5) + 1]
GovOfRow(s, r) == IF r <= NumGovs THEN r ELSE ((s * r) % NumGovs) + 1
ExistPattern(s, r, col) ==
    IF (r + 2 * s) % 5 = 0 THEN RawCells[(col % 2) + 1]
    ELSE RawCells[(((s * r + col * col * r + col + s) % 7) % 5) + 1]
\* In some files a later row repeats the indicators of its governorate's
\* first row.
ExistCell(s, r, col) ==
    IF r > NumGovs /\ s % 4 = 2 THEN ExistPattern(s, GovOfRow(s, r), col)
    ELSE ExistPattern(s, r, col)
TownCell(s, r) ==
    IF (r + s) % 5 = 0 THEN ""
    ELSE IF r > NumGovs /\ s % 2 = 0 THEN Towns[((GovOfRow(s, r) * (s + 1)) % 4) + 1]
    ELSE Towns[((r * (s + 1)) % 4) + 1]
AreaCell(s, r) ==
    <<IF (r + s) % 2 = 0 THEN "http://data.example/area/" ELSE "", GovOfRow(s, r)>>

CsvRow(s, r) ==
    [refArea |-> AreaCell(s, r),
     Town |-> TownCell(s, r),
     small |-> CountCell(s, r, 1),
     medium |-> CountCell(s, r, 2),
     large |-> CountCell(s, r, 3),
     service |-> CountCell(s, r, 4),
     nonbanking |-> CountCell(s, r, 5),
     self_employment |-> ExistCell(s, r, 1),
     public_sector |-> ExistCell(s, r, 2),
     banking_institutions |-> ExistCell(s, r, 3),
     service_institutions |-> ExistCell(s, r, 4),
     commerce |-> ExistCell(s, r, 5)]

CsvFile(s) == List([r \in 1..NumRows |-> CsvRow(s, r)])
CsvFiles == {CsvFile(s) : s \in 1..NumTables}
DataFiles == {CsvFile(s) : s \in 1..NumDataTables}

\* ------------------------------------------------------- LOAD & PREP
NaN == [isna |-> TRUE, v |-> 0]
Numerals == <<"0", "1", "2">>

\* pd.to_numeric(..., errors="coerce") on one cell: a numeral parses to its
\* number, anything else (the empty cell too) becomes NaN.
to_numeric(cell) ==
    IF \E i \in DOMAIN Numerals : Numerals[i] = cell
    THEN [isna |-> FALSE, v |-> (CHOOSE i \in DOMAIN Numerals : Numerals[i] = cell) - 1]
    ELSE NaN

fillna(x, d) == IF x.isna THEN [isna |-> FALSE, v |-> d] ELSE x

\* clean_area: what follows the last "/" of the area, titled and suffixed,
\* is the governorate's name.
clean_area(x) == x[2]

\* Lines 87-88, the size and total columns: NaN becomes 0.
LoadCount(cell) == fillna(to_numeric(cell), 0).v

LoadExistFillZero(cell) == fillna(to_numeric(cell), 0)
\* Lines 91-92, the existence columns: NaN stays NaN.
LoadExist(cell) == to_numeric(cell)

\* One row of the loaded table.  read_csv leaves an empty Town cell as NaN,
\* written here as the empty string.
LoadRow(raw) ==
    [Governorate |-> clean_area(raw.refArea),
     Town |-> raw.Town,
     small |-> LoadCount(raw.small),
     medium |-> LoadCount(raw.medium),
     large |-> LoadCount(raw.large),
     service |-> LoadCount(raw.service),
     nonbanking |-> LoadCount(raw.nonbanking),
     self_employment |-> LoadExist(raw.self_employment),
     public_sector |-> LoadExist(raw.public_sector),
     banking_institutions |-> LoadExist(raw.banking_institutions),
     service_institutions |-> LoadExist(raw.service_institutions),
     commerce |-> LoadExist(raw.commerce)]

load_data(file) == List([r \in DOMAIN file |-> LoadRow(file[r])])

\* --------------------------------------------------- FILTER & AGG
\* df[df["Governorate"].isin(sel)]
FilterGovs(table, sel) == SelectSeq(table, LAMBDA r : r.Governorate \in sel)

ColumnOf(table, g, c) ==
    LET rows == SelectSeq(table, LAMBDA r : r.Governorate = g)
    IN List([i \in DOMAIN rows |-> rows[i][c]])

GroupLast(table, g, c) == LET col == ColumnOf(table, g, c) IN col[Len(col)]
\* One cell of groupby("Governorate")[...].sum().
GroupSum(table, g, c) == SumSeq(ColumnOf(table, g, c))

\* groupby(...).sum(): one row per governorate of the table, keys ascending.
GroupBySum(table) ==
    LET keys == SetToSortedSeq({table[i].Governorate : i \in DOMAIN table})
    IN List([k \in DOMAIN keys |->
           [Governorate |-> keys[k],
            small |-> GroupSum(table, keys[k], "small"),
            medium |-> GroupSum(table, keys[k], "medium"),
            large |-> GroupSum(table, keys[k], "large"),
            service |-> GroupSum(table, keys[k], "service"),
            nonbanking |-> GroupSum(table, keys[k], "nonbanking")]])

\* agg[COMMERCIAL_SIZE_COLS].sum(axis=1)
CommercialTotal(row) ==
    SumSeq(List([i \in DOMAIN COMMERCIAL_SIZE_COLS |-> row[COMMERCIAL_SIZE_COLS[i]]]))

\* Lines 118-122.
AllTotal(row, commercial) == commercial + row.service + row.nonbanking

WithTotals(grouped) ==
    List([k \in DOMAIN grouped |->
        LET ct == CommercialTotal(grouped[k])
        IN [Governorate |-> grouped[k].Governorate,
            small |-> grouped[k].small,
            medium |-> grouped[k].medium,
            large |-> grouped[k].large,
            service |-> grouped[k].service,
            nonbanking |-> grouped[k].nonbanking,
            commercial_total |-> ct,
            all_total |-> AllTotal(grouped[k], ct)]])

ComesBeforeAscending(keys, tie, i, j) ==
    \/ keys[i] < keys[j]
    \/ keys[i] = keys[j] /\ (IF tie = "input" THEN i <= j ELSE i >= j)
\* Whether position i comes before position j in a descending sort of keys.
\* pandas sorts with kind="quicksort", which does not promise an order for
\* equal keys: tie says which order the build at hand produces.
ComesBefore(keys, tie, i, j) ==
    \/ keys[i] > keys[j]
    \/ keys[i] = keys[j] /\ (IF tie = "input" THEN i <= j ELSE i >= j)

RECURSIVE ArgSortFrom(_, _, _)
ArgSortFrom(keys, tie, left) ==
    IF left = {} THEN <<>>
    ELSE LET i == CHOOSE i \in left : \A j \in left : ComesBefore(keys, tie, i, j)
         IN <<i>> \o ArgSortFrom(keys, tie, left \ {i})

\* sort_values(key, ascending=False): the rows by descending key.
SortValuesDesc(rows, keys, tie) ==
    LET order == ArgSortFrom(keys, tie, DOMAIN rows)
    IN List([k \in DOMAIN rows |-> rows[order[k]]])

\* DataFrame.head(n)
head(s, n) == SubSeq(s, 1, Min(n, Len(s)))

GovernorateList(rows) == List([k \in DOMAIN rows |-> rows[k].Governorate])

\* Lines 114-123: the aggregate of the selected governorates, ranked and cut.
Aggregate(table, sel, n, tie) ==
    LET totals == WithTotals(GroupBySum(FilterGovs(table, sel)))
        keys == List([k \in DOMAIN totals |-> totals[k].all_total])
    IN head(SortValuesDesc(totals, keys, tie), n)

NoRefilter(table, sel, aggregate) == FilterGovs(table, sel)
\* Lines 114 and 125: the rows of the governorates that are in the aggregate.
Refilter(table, sel, aggregate) ==
    FilterGovs(FilterGovs(table, sel), Range(GovernorateList(aggregate)))

\* ------------------------------------------------------- VISUAL 1
SeriesColumns(split) ==
    IF split THEN COMMERCIAL_SIZE_COLS \o OTHER_COLS ELSE <<"Commercial">> \o OTHER_COLS

SeriesLabel(split, c) ==
    IF c = "Commercial" THEN "Commercial (total)"
    ELSE IF c \in Range(COMMERCIAL_SIZE_COLS) THEN SIZE_MAP[c] ELSE OTHER_MAP[c]

series_order(split) ==
    LET cols == SeriesColumns(split)
    IN List([i \in DOMAIN cols |-> SeriesLabel(split, cols[i])])

\* melt: one entry per value column and row of the aggregate, column by column.
Melt(aggregate, split) ==
    LET cols == SeriesColumns(split)
    IN Flatten(List([i \in DOMAIN cols |->
           List([k \in DOMAIN aggregate |->
               [Governorate |-> aggregate[k].Governorate,
                Series |-> SeriesLabel(split, cols[i]),
                Value |-> IF cols[i] = "Commercial"
                          THEN aggregate[k].commercial_total
                          ELSE aggregate[k][cols[i]]]])]))

GroupValues(long, g) ==
    LET rows == SelectSeq(long, LAMBDA e : e.Governorate = g)
    IN List([i \in DOMAIN rows |-> rows[i].Value])

RECURSIVE MaxSeq(_)
MaxSeq(s) == IF Len(s) = 1 THEN Head(s) ELSE Max(Head(s), MaxSeq(Tail(s)))

RowSumOfLargest(values) == Max(MaxSeq(values), 1)
\* The lambda of line 150: max(s.sum(), 1).
RowSum(values) == Max(SumSeq(values), 1)

\* Lines 149-154: Value / RowSum * 100 in percentage mode, Value otherwise.
Normalize(long, pct) ==
    LET keys == SetToSortedSeq({long[i].Governorate : i \in DOMAIN long})
        sums == List([k \in DOMAIN keys |-> RowSum(GroupValues(long, keys[k]))])
        RowSumOf(g) == sums[CHOOSE k \in DOMAIN keys : keys[k] = g]
    IN List([i \in DOMAIN long |->
           [Governorate |-> long[i].Governorate,
            Series |-> long[i].Series,
            Value |-> IF pct
                      THEN [num |-> long[i].Value * 100,
                            den |-> RowSumOf(long[i].Governorate)]
                      ELSE [num |-> long[i].Value, den |-> 1]]])

LongV1(aggregate, split, pct) == Normalize(Melt(aggregate, split), pct)

\* ------------------------------------------------------- VISUAL 3
IsOneNotZero(val) == IF val.isna \/ val.v # 0 THEN 1 ELSE 0
\* (exist_long["Val"] == 1).astype(int): NaN == 1 is False.
IsOne(val) == IF ~val.isna /\ val.v = 1 THEN 1 ELSE 0

\* exist.melt(...) with IsOne: one entry per existence column and row, column
\* by column.  to_numeric of line 196 leaves the parsed cells as they are.
ExistLong(rows) ==
    Flatten(List([i \in DOMAIN EXISTENCE_COLS |->
        List([k \in DOMAIN rows |->
            [Governorate |-> rows[k].Governorate,
             Town |-> rows[k].Town,
             ActivityRaw |-> EXISTENCE_COLS[i],
             Val |-> rows[k][EXISTENCE_COLS[i]],
             IsOne |-> IsOne(rows[k][EXISTENCE_COLS[i]])]])]))

\* The existence columns in the order groupby sorts them (by name).
ActivityRawSorted ==
    <<"banking_institutions", "commerce", "public_sector", "self_employment",
      "service_institutions">>

\* One group of groupby(["Governorate", "ActivityRaw"]).
GroupOf(long, g, c) == SelectSeq(long, LAMBDA e : e.Governorate = g /\ e.ActivityRaw = c)

\* ["IsOne"].sum() of a group.
NumTowns(group) == SumSeq(List([i \in DOMAIN group |-> group[i].IsOne]))

\* ["Val"].count() of a group: the non-null ones.
Denom(group) == Len(SelectSeq(group, LAMBDA e : ~e.Val.isna))

\* abs_counts.merge(den_counts, how="left") with the Activity label and Value.
MergedCounts(long) ==
    LET keys == SetToSortedSeq({long[i].Governorate : i \in DOMAIN long})
    IN Flatten(List([k \in DOMAIN keys |->
           LET ofGov == SelectSeq(long, LAMBDA e : e.Governorate = keys[k])
           IN List([i \in DOMAIN ActivityRawSorted |->
                  LET group == GroupOf(ofGov, keys[k], ActivityRawSorted[i])
                      n == NumTowns(group)
                  IN [Governorate |-> keys[k],
                      ActivityRaw |-> ActivityRawSorted[i],
                      NumTowns |-> n,
                      Denom |-> Denom(group),
                      Activity |-> EXISTENCE_LABELS[ActivityRawSorted[i]],
                      Value |-> n]])]))

\* Lines 228-233: the governorates by their largest Denom, descending.
gov_rank(counts, tie) ==
    LET keys == SetToSortedSeq({counts[i].Governorate : i \in DOMAIN counts})
        best == List([k \in DOMAIN keys |->
                    LET rows == SelectSeq(counts, LAMBDA e : e.Governorate = keys[k])
                    IN MaxSeq(List([i \in DOMAIN rows |-> rows[i].Denom]))])
    IN SortValuesDesc(keys, best, tie)

\* Lines 199-237.
ExistCounts(long, tie) ==
    LET counts == MergedCounts(long)
        rank == gov_rank(counts, tie)
    IN SelectSeq(counts, LAMBDA e : e.Governorate \in Range(rank))

\* ------------------------------------------------------ DRILL DOWN
RECURSIVE drop_duplicates(_)
\* Keeps the first of equal entries.
drop_duplicates(s) ==
    IF s = <<>> THEN <<>>
    ELSE LET front == drop_duplicates(SubSeq(s, 1, Len(s) - 1))
             last == s[Len(s)]
         IN IF last \in Range(front) THEN front ELSE Append(front, last)

dropna(s) == SelectSeq(s, LAMBDA t : t # "")

RECURSIVE SortTownsFrom(_)
SortTownsFrom(S) ==
    IF S = {} THEN <<>>
    ELSE LET t == CHOOSE t \in S : \A u \in S : TownRank(t) <= TownRank(u)
         IN <<t>> \o SortTownsFrom(S \ {t})

\* Series.sort_values() on town names without duplicates.
sort_values(s) == SortTownsFrom(Range(s))

\* exist_counts["Governorate"].drop_duplicates().tolist()
GovOptions(counts) ==
    drop_duplicates(List([i \in DOMAIN counts |-> counts[i].Governorate]))

DrillRowsAnyValue(long, gov, act) ==
    SelectSeq(long, LAMBDA e : /\ e.Governorate = gov
                               /\ EXISTENCE_LABELS[e.ActivityRaw] = act
                               /\ ~e.Val.isna)
\* The boolean mask of lines 297-301.
DrillRows(long, gov, act) ==
    SelectSeq(long, LAMBDA e : /\ e.Governorate = gov
                               /\ EXISTENCE_LABELS[e.ActivityRaw] = act
                               /\ e.IsOne = 1)

\* Lines 296-306.
TownsWithAct(long, gov, act) ==
    LET rows == DrillRows(long, gov, act)
    IN sort_values(drop_duplicates(dropna(List([i \in DOMAIN rows |-> rows[i].Town]))))

\* ---------------------------------------------------------- widgets
\* st.selectbox(label, options, index=0): a selectbox whose options are those
\* of the run before keeps its value; one whose options changed is a new
\* widget and returns its first option; one without options returns None.
Selectbox(options, prevOptions, prevValue) ==
    IF options = <<>> THEN None
    ELSE IF options = prevOptions THEN prevValue
    ELSE options[1]

\* ------------------------------------------------------- the script
\* One run of the script, lines 96-316, from the table `base` and the widget
\* values; prevFocusOptions, prevFocus, prevDdOptions and prevDdGov are the
\* selectboxes' options and values of the run before.
Script(base, tie, sel, n, pct, split, prevFocusOptions, prevFocus, prevDdOptions, prevDdGov, act) ==
    LET a == Aggregate(base, sel, n, tie)
        rows == Refilter(base, sel, a)
        long == ExistLong(rows)
        counts == ExistCounts(long, tie)
        focus == Selectbox(GovernorateList(a), prevFocusOptions, prevFocus)
        ddgov == Selectbox(GovOptions(counts), prevDdOptions, prevDdGov)
        towns == TownsWithAct(long, ddgov, act)
    IN [agg |-> a,
        dff |-> rows,
        long_v1 |-> LongV1(a, split, pct),
        focus_gov |-> focus,
        exist_counts |-> counts,
        gov_options |-> GovOptions(counts),
        dd_gov |-> ddgov,
        towns_with_act |-> towns,
        view |-> [visual1 |-> "chart",
                  visual2 |-> IF a = <<>> THEN "warning" ELSE "pie",
                  visual3 |-> "chart",
                  drill |-> IF towns # <<>> THEN "list" ELSE "info"]]

\* ------------------------------------------------------------ state
VARIABLES
    csv,               \* the data file
    tie,               \* the order the build's quicksort gives equal keys
    df,                \* the table st.cache_data holds
    sel_govs, top_n_gov, show_pct_comm, split_commercial, dd_act,   \* widgets
    page,              \* what the last run of the script built and showed
    runs               \* runs of the script so far

vars == <<csv, tie, df, sel_govs, top_n_gov, show_pct_comm, split_commercial, dd_act,
          page, runs>>

\* The script's variables after its last run.
agg == page.agg
dff == page.dff
long_v1 == page.long_v1
focus_gov == page.focus_gov
exist_counts == page.exist_counts
gov_options == page.gov_options
dd_gov == page.dd_gov
towns_with_act == page.towns_with_act
view == page.view

\* sorted(df["Governorate"].unique().tolist())
govs == SetToSortedSeq({df[i].Governorate : i \in DOMAIN df})

TieOrders == {"input", "reversed"}

\* The state after the first run of the script on one of `files`.
InitFrom(files) ==
    /\ csv \in files
    /\ tie \in TieOrders
    /\ df = load_data(csv)
    /\ sel_govs = Range(govs)
    /\ top_n_gov = Min(SliderDefault, MaxTopN)
    /\ show_pct_comm = TRUE
    /\ split_commercial = TRUE
    /\ dd_act = act_options[1]
    /\ page = Script(df, tie, sel_govs, top_n_gov, show_pct_comm, split_commercial,
                     <<>>, None, <<>>, None, dd_act)
    /\ runs = 1

Init == InitFrom(CsvFiles)
InitData == InitFrom(DataFiles)

StaleInput == dff
\* The table a run starts from: load_data(CSV_PATH) returns the cached table.
ScriptInput == df

\* A widget changed: the script runs again, top to bottom.
Rerun(sel, n, pct, split, focus, ddgov, act) ==
    /\ runs' = runs + 1
    /\ page' = Script(ScriptInput, tie, sel, n, pct, split, GovernorateList(agg), focus,
                      gov_options, ddgov, act)
    /\ sel_govs' = sel
    /\ top_n_gov' = n
    /\ show_pct_comm' = pct
    /\ split_commercial' = split
    /\ dd_act' = act
    /\ UNCHANGED <<csv, tie, df>>

RemoveGov(g) ==
    /\ g \in sel_govs
    /\ Rerun(sel_govs \ {g}, top_n_gov, show_pct_comm, split_commercial, focus_gov,
             dd_gov, dd_act)

AddGov(g) ==
    /\ g \in Range(govs) \ sel_govs
    /\ Rerun(sel_govs \cup {g}, top_n_gov, show_pct_comm, split_commercial, focus_gov,
             dd_gov, dd_act)

ClearGovs ==
    /\ sel_govs # {}
    /\ Rerun({}, top_n_gov, show_pct_comm, split_commercial, focus_gov, dd_gov, dd_act)

SetTopN(n) ==
    /\ n # top_n_gov
    /\ Rerun(sel_govs, n, show_pct_comm, split_commercial, focus_gov, dd_gov, dd_act)

ToggleShowPct ==
    Rerun(sel_govs, top_n_gov, ~show_pct_comm, split_commercial, focus_gov, dd_gov, dd_act)

ToggleSplit ==
    Rerun(sel_govs, top_n_gov, show_pct_comm, ~split_commercial, focus_gov, dd_gov, dd_act)

ChooseFocus(g) ==
    /\ g \in Range(GovernorateList(agg)) \ {focus_gov}
    /\ Rerun(sel_govs, top_n_gov, show_pct_comm, split_commercial, g, dd_gov, dd_act)

ChooseDdGov(g) ==
    /\ g \in Range(gov_options) \ {dd_gov}
    /\ Rerun(sel_govs, top_n_gov, show_pct_comm, split_commercial, focus_gov, g, dd_act)

ChooseDdAct(a) ==
    /\ a # dd_act
    /\ Rerun(sel_govs, top_n_gov, show_pct_comm, split_commercial, focus_gov, dd_gov, a)

SliderValues == SliderMin..Min(SliderMax, MaxTopN)

\* One interaction of the user in a session of up to MaxRuns runs.
Next ==
    \/ runs < MaxRuns /\ \E g \in Govs : RemoveGov(g)
    \/ runs < MaxRuns /\ \E g \in Govs : AddGov(g)
    \/ runs < MaxRuns /\ ClearGovs
    \/ runs < MaxRuns /\ \E n \in SliderValues : SetTopN(n)
    \/ runs < MaxRuns /\ ToggleShowPct
    \/ runs < MaxRuns /\ ToggleSplit
    \/ runs < MaxRuns /\ \E g \in Govs : ChooseFocus(g)
    \/ runs < MaxRuns /\ \E g \in Govs : ChooseDdGov(g)
    \/ runs < MaxRuns /\ \E a \in Range(act_options) : ChooseDdAct(a)

\* One interaction of the user in a session of up to MaxDataRuns runs; no
\* governorate is put back, as none is missing before the first interaction.
NextData ==
    \/ runs < MaxDataRuns /\ \E g \in Govs : RemoveGov(g)
    \/ runs < MaxDataRuns /\ ClearGovs
    \/ runs < MaxDataRuns /\ \E n \in SliderValues : SetTopN(n)
    \/ runs < MaxDataRuns /\ ToggleShowPct
    \/ runs < MaxDataRuns /\ ToggleSplit
    \/ runs < MaxDataRuns /\ \E g \in Govs : ChooseFocus(g)
    \/ runs < MaxDataRuns /\ \E g \in Govs : ChooseDdGov(g)
    \/ runs < MaxDataRuns /\ \E a \in Range(act_options) : ChooseDdAct(a)

\* Sessions of up to MaxRuns runs on a few data files.
Spec == Init /\ [][Next]_vars
\* Sessions of up to MaxDataRuns runs on many data files.
SpecData == InitData /\ [][NextData]_vars

\* ------------------------------------------------------- properties
\* The definitions from here on state the properties.  What they expect is
\* read off the data file csv and the cached table df, row by row, without
\* the operators of the script.

CountColumnNames == {"small", "medium", "large", "service", "nonbanking"}
ExistColumnNames ==
    {"self_employment", "public_sector", "banking_institutions", "service_institutions",
     "commerce"}
PresentCells == {"0", "1", "2"}

RowsOfGov(g) == {r \in DOMAIN df : df[r].Governorate = g}

RECURSIVE SumOverRows(_, _)
SumOverRows(R, c) ==
    IF R = {} THEN 0
    ELSE LET r == CHOOSE r \in R : TRUE IN df[r][c] + SumOverRows(R \ {r}, c)

RawTotal(g) ==
    SumOverRows(RowsOfGov(g), "small") + SumOverRows(RowsOfGov(g), "medium")
    + SumOverRows(RowsOfGov(g), "large") + SumOverRows(RowsOfGov(g), "service")
    + SumOverRows(RowsOfGov(g), "nonbanking")

AggGovs == {agg[k].Governorate : k \in DOMAIN agg}

\* C1: every row of the aggregate is a selected governorate; each of its size
\* and total columns is the sum of the column over the governorate's rows,
\* "Commercial (total)" is small + medium + large, and "All total" is
\* "Commercial (total)" + service + nonbanking.
C1_AggregateSums ==
    \A k \in DOMAIN agg :
        LET row == agg[k]
        IN /\ row.Governorate \in sel_govs
           /\ \A c \in CountColumnNames : row[c] = SumOverRows(RowsOfGov(row.Governorate), c)
           /\ row.commercial_total = row.small + row.medium + row.large
           /\ row.all_total = row.commercial_total + row.service + row.nonbanking

\* A governorate of the aggregate has two rows that both count institutions
\* in one column.
C1_Witness ==
    \E k \in DOMAIN agg : \E c \in CountColumnNames :
        /\ Cardinality({r \in RowsOfGov(agg[k].Governorate) : df[r][c] > 0}) >= 2
        /\ agg[k].large > 0

\* C2: the aggregate has min(N, |S|) rows, all of them different governorates
\* of S, in descending order of their totals, and no governorate of S that is
\* left out has a larger total than one that is kept.
C2_TopNSelection ==
    /\ sel_govs \subseteq Range(govs)
    /\ Len(agg) = Min(top_n_gov, Cardinality(sel_govs))
    /\ Cardinality(AggGovs) = Len(agg)
    /\ AggGovs \subseteq sel_govs
    /\ \A k \in 1..(Len(agg) - 1) :
          RawTotal(agg[k].Governorate) >= RawTotal(agg[k + 1].Governorate)
    /\ \A g \in sel_govs \ AggGovs : \A k \in DOMAIN agg :
          RawTotal(g) <= RawTotal(agg[k].Governorate)

\* N cuts the selection, the totals kept differ, and a governorate left out
\* has a smaller total than one kept.
C2_Witness ==
    /\ top_n_gov < Cardinality(sel_govs)
    /\ Len(agg) = top_n_gov
    /\ agg[1].all_total > agg[Len(agg)].all_total
    /\ \E g \in sel_govs \ AggGovs : RawTotal(g) < agg[Len(agg)].all_total

EntriesOfGov(g) == {i \in DOMAIN long_v1 : long_v1[i].Governorate = g}

RECURSIVE SumOfNum(_)
SumOfNum(E) ==
    IF E = {} THEN 0
    ELSE LET i == CHOOSE i \in E : TRUE IN long_v1[i].Value.num + SumOfNum(E \ {i})

C4_NumeratorAtMostDenominator ==
    \A i \in DOMAIN exist_counts :
        /\ 0 <= exist_counts[i].NumTowns
        /\ exist_counts[i].NumTowns <= exist_counts[i].Denom

\* A count whose numerator is positive and below its denominator, and a
\* count whose numerator equals its denominator although the governorate has
\* a row without data for that activity.
C4_Witness ==
    /\ \E i \in DOMAIN exist_counts :
          0 < exist_counts[i].NumTowns /\ exist_counts[i].NumTowns < exist_counts[i].Denom
    /\ \E i \in DOMAIN exist_counts :
          /\ 0 < exist_counts[i].NumTowns
          /\ exist_counts[i].NumTowns = exist_counts[i].Denom
          /\ \E r \in RowsOfGov(exist_counts[i].Governorate) :
                df[r][exist_counts[i].ActivityRaw].isna

CsvRowsOfGov(g) == {r \in DOMAIN csv : csv[r].refArea[2] = g}

\* C5: a cell of an existence column is missing in the cached table exactly
\* when the file's cell is empty or no number; the denominator of a count is
\* the number of the governorate's rows whose cell holds a number, and the
\* numerator the number of those whose cell holds 1.
C5_MissingNotCounted ==
    /\ \A r \in DOMAIN csv : \A c \in ExistColumnNames :
          df[r][c].isna <=> csv[r][c] \notin PresentCells
    /\ \A i \in DOMAIN exist_counts :
          LET e == exist_counts[i]
              R == CsvRowsOfGov(e.Governorate)
          IN /\ e.Denom = Cardinality({r \in R : csv[r][e.ActivityRaw] \in PresentCells})
             /\ e.NumTowns = Cardinality({r \in R : csv[r][e.ActivityRaw] = "1"})

\* A count of a governorate with an empty cell, a cell of text and a cell
\* holding 0 in the activity's column.
C5_Witness ==
    \E i \in DOMAIN exist_counts :
        LET e == exist_counts[i]
            R == CsvRowsOfGov(e.Governorate)
        IN /\ \E r \in R : csv[r][e.ActivityRaw] = ""
           /\ \E r \in R : csv[r][e.ActivityRaw] = "0"
           /\ e.Denom >= 1

DrillColumn == CHOOSE c \in ExistColumnNames : EXISTENCE_LABELS[c] = dd_act
DrillMatches ==
    {r \in CsvRowsOfGov(dd_gov) : csv[r][DrillColumn] = "1" /\ csv[r].Town # ""}

\* C6: the drill-down list holds exactly the town names of the rows of the
\* chosen governorate whose cell of the chosen activity holds 1, rows without
\* a town name left out, each name once, in ascending order; the chosen
\* governorate is one of the options, or None when there is no option.
C6_DrillDown ==
    /\ Range(towns_with_act) = {csv[r].Town : r \in DrillMatches}
    /\ \A i, j \in DOMAIN towns_with_act :
          i < j => TownRank(towns_with_act[i]) < TownRank(towns_with_act[j])
    /\ IF gov_options = <<>> THEN dd_gov = None ELSE dd_gov \in Range(gov_options)

\* Two rows of the chosen governorate name the same town and both hold 1, and
\* a third town of the governorate is listed too.
C6_Witness ==
    /\ \E r1, r2 \in DrillMatches : r1 # r2 /\ csv[r1].Town = csv[r2].Town
    /\ Len(towns_with_act) >= 1

NoDataStates == {"warning", "info"}

\* C7: with no governorate selected the aggregate is empty and every view
\* shows its "no data" state.
C7_EmptySelectionShowsNoData ==
    sel_govs = {} =>
        /\ agg = <<>>
        /\ view.visual1 \in NoDataStates
        /\ view.visual2 \in NoDataStates
        /\ view.visual3 \in NoDataStates
        /\ view.drill \in NoDataStates

\* C8: governorates of equal total are in the order of the grouped table
\* (ascending names), and of those tied at the cut the earliest are kept.
C8_StableSort ==
    /\ \A i, j \in DOMAIN agg :
          i < j /\ agg[i].all_total = agg[j].all_total
              => agg[i].Governorate < agg[j].Governorate
    /\ \A g \in sel_govs \ AggGovs : \A k \in DOMAIN agg :
          RawTotal(g) = agg[k].all_total => agg[k].Governorate < g

C10_ActivityRowsFollowTopN ==
    /\ dff = SelectSeq(df, LAMBDA r : r.Governorate \in AggGovs)
    /\ {exist_counts[i].Governorate : i \in DOMAIN exist_counts} = AggGovs
    /\ Range(gov_options) = AggGovs
    /\ Len(exist_counts) = 5 * Cardinality(AggGovs)
    /\ \A g \in AggGovs : \A a \in Range(act_options) :
          Cardinality({i \in DOMAIN exist_counts :
                          exist_counts[i].Governorate = g /\ exist_counts[i].Activity = a}) = 1

\* N cuts a selected governorate, and a governorate that is kept has no
\* recorded indicator at all (its largest denominator is 0).
C10_Witness ==
    /\ Cardinality(AggGovs) < Cardinality(sel_govs)
    /\ \E g \in AggGovs : \A i \in DOMAIN exist_counts :
          exist_counts[i].Governorate = g => exist_counts[i].Denom = 0
    /\ \E g \in AggGovs : \E i \in DOMAIN exist_counts :
          exist_counts[i].Governorate = g /\ exist_counts[i].Denom > 0

============================================================================
